---- MODULE Spec2Model ----
(***************************************************************************)
(* Substitute-part validator: the session state machine of App (uploads,   *)
(* completeness check, full analysis, reset) and the two service functions *)
(* checkFileCompleteness / analyzeDatasheets of geminiService.             *)
(***************************************************************************)
EXTENDS Integers, Sequences, FiniteSets, TLC

VARIABLES
    apiKey,     \* process.env.API_KEY is set
    state,      \* App: the AppState record held by useState
    calls,      \* App: the service calls not yet settled, in the order issued
    pending,    \* FileUploadCard: the cards whose selection is still being read
    svc,        \* service: one invocation of a service function, step by step
    upload,     \* FileUploadCard (multiple): the selection being read
    export      \* AnalysisTable: the result shown and the CSV text last exported

vars == <<apiKey, state, calls, pending, svc, upload, export>>
appVars == <<state, calls, pending>>

NULL == "null"

\* ------------------------------------------------------------------ bounds
MaxInFlight == 2        \* App: service calls in flight at once
MaxSvcDatasheets == 2   \* service: longest datasheets argument
MaxRespLen == 1         \* remote reply: tokens between the fence lines
MaxHeld == 2            \* upload card: datasheets held or being read
MaxGroups == 2          \* export: groups of the result shown
MaxSpecs == 1           \* export: spec items of a group

\* ------------------------------------------------------------------- files
PDF == "application/pdf"
PNG == "image/png"
JPEG == "image/jpeg"
SHEET == "application/vnd.openxmlformats-officedocument.spreadsheetml.sheet"
XLS == "application/vnd.ms-excel"
DOCX == "application/msword"

\* FileData: id, file.name, type; workbook tells whether base64 decodes as a
\* spreadsheet workbook (what XLSX.read does with the payload).
FileData(id, name, type, workbook) ==
    [id |-> id, name |-> name, type |-> type, workbook |-> workbook]

\* The null FileData (masterList: null).
NoFile == FileData("", "", "", FALSE)

\* String.prototype.includes / endsWith over the strings of the model.
TypeIncludes(type, word) ==
    CASE word = "spreadsheet" -> type = SHEET
      [] word = "excel" -> type = XLS
      [] word = "sheet" -> type = SHEET
      [] word = "png" -> type = PNG
      [] word = "jpeg" -> type = JPEG
      [] word = "jpg" -> FALSE
      [] OTHER -> FALSE

NameEndsWith(name, ext) ==
    CASE ext = ".xlsx" -> name \in {"m.xlsx", "bad.xlsx"}
      [] ext = ".xls" -> name = "old.xls"
      [] OTHER -> FALSE

supportedTypes == {PDF, PNG, JPEG, "image/jpg", "image/webp", SHEET, XLS}

\* --------------------------------------------------------- geminiService
\* validateMimeType: TRUE when it returns, FALSE when it throws.
validateMimeType(fileData) == fileData.type \in supportedTypes

isExcel(fileData) ==
    \/ TypeIncludes(fileData.type, "spreadsheet")
    \/ TypeIncludes(fileData.type, "excel")
    \/ NameEndsWith(fileData.name, ".xlsx")
    \/ NameEndsWith(fileData.name, ".xls")

\* A prompt part. who: 0 the master list, i the i-th datasheet, -1 the
\* instruction text. what: "prompt", "marker" (the DOCUMENT... line pushed
\* before an inline part), "csv" (DOCUMENT_CONTENT text) or "inline".
Part(what, who, mime, names) ==
    [what |-> what, who |-> who, mime |-> mime, names |-> names]

\* getFileContentPart going on with an empty text when XLSX.read throws.
getFileContentPart_Lenient(fileData, who) ==
    IF isExcel(fileData)
    THEN [threw |-> FALSE, part |-> Part("csv", who, "text", <<>>)]
    ELSE [threw |-> FALSE, part |-> Part("inline", who, fileData.type, <<>>)]

\* getFileContentPart: the part it returns, or the thrown parse error.
getFileContentPart(fileData, who) ==
    IF isExcel(fileData)
    THEN IF fileData.workbook
         THEN [threw |-> FALSE, part |-> Part("csv", who, "text", <<>>)]
         ELSE [threw |-> TRUE, part |-> Part("csv", who, "text", <<>>)]
    ELSE [threw |-> FALSE, part |-> Part("inline", who, fileData.type, <<>>)]

\* Attach pushing the inline part without the DOCUMENT... line before it.
Attach_Unmarked(content, who) == <<content.part>>

\* What one file contributes to parts: the text alone, or marker + inline.
Attach(content, who) ==
    IF content.part.what = "csv"
    THEN <<content.part>>
    ELSE <<Part("marker", who, "text", <<>>), content.part>>

Ev(ev, who) == [ev |-> ev, who |-> who]

\* Outcome of the synchronous part of a service function, up to the await.
Sync(log, parts, error) == [log |-> log, parts |-> parts, error |-> error]

\* Index of the first element of seq satisfying P, or Len(seq) + 1.
FirstWhere(seq, P(_)) ==
    IF \E i \in 1..Len(seq) : P(seq[i])
    THEN CHOOSE i \in 1..Len(seq) : P(seq[i]) /\ \A j \in 1..(i - 1) : ~P(seq[j])
    ELSE Len(seq) + 1

Min(a, b) == IF a < b THEN a ELSE b

RECURSIVE Flatten(_)
Flatten(seqs) == IF seqs = <<>> THEN <<>> ELSE Head(seqs) \o Flatten(Tail(seqs))

FileNames(files) == [i \in 1..Len(files) |-> files[i].name]

\* CheckBody pushing one inline part per uploaded file name as well.
CheckBody_Attaching(masterList, filenames) ==
    LET prompt == Part("prompt", -1, "text", filenames)
        masterContent == getFileContentPart(masterList, 0)
        uploaded == [i \in 1..Len(filenames) |-> Part("inline", i, PDF, <<>>)]
    IN  IF masterList = NoFile THEN Sync(<<>>, <<>>, "type_error")
        ELSE IF ~validateMimeType(masterList)
             THEN Sync(<<Ev("validate", 0)>>, <<>>, "unsupported")
        ELSE IF masterContent.threw
             THEN Sync(<<Ev("validate", 0)>>, <<prompt>>, "parse")
        ELSE Sync(<<Ev("validate", 0), Ev("normalize", 0), Ev("remote", -1)>>,
                  <<prompt>> \o Attach(masterContent, 0) \o uploaded, "none")

\* checkFileCompleteness, lines 140-215: from validateMimeType to the call of
\* generateContent. validateMimeType(null) throws a TypeError.
CheckBody(masterList, filenames) ==
    LET prompt == Part("prompt", -1, "text", filenames)
        masterContent == getFileContentPart(masterList, 0)
    IN  IF masterList = NoFile THEN Sync(<<>>, <<>>, "type_error")
        ELSE IF ~validateMimeType(masterList)
             THEN Sync(<<Ev("validate", 0)>>, <<>>, "unsupported")
        ELSE IF masterContent.threw
             THEN Sync(<<Ev("validate", 0)>>, <<prompt>>, "parse")
        ELSE Sync(<<Ev("validate", 0), Ev("normalize", 0), Ev("remote", -1)>>,
                  <<prompt>> \o Attach(masterContent, 0), "none")

\* CheckSync with the API key looked at only when the client is built.
CheckSync_KeyLate(key, masterList, filenames) ==
    LET r == CheckBody(masterList, filenames)
    IN  IF r.error = "none" /\ ~key
        THEN Sync(SubSeq(r.log, 1, Len(r.log) - 1), r.parts, "credential")
        ELSE r

\* checkFileCompleteness, lines 139-215: everything before the await.
CheckSync(key, masterList, filenames) ==
    IF ~key THEN Sync(<<>>, <<>>, "credential") ELSE CheckBody(masterList, filenames)

NotSupported(fileData) == ~validateMimeType(fileData)
NotReadable(fileData) == getFileContentPart(fileData, 0).threw

\* NoDatasheets with the test of line 293 left out.
NoDatasheets_Unchecked(datasheets) == FALSE

\* analyzeDatasheets, line 293
NoDatasheets(datasheets) == Len(datasheets) = 0

\* analyzeDatasheets, lines 236-367: everything before the await.
AnalyzeSync(key, masterList, datasheets) ==
    LET n == Len(datasheets)
        badType == FirstWhere(datasheets, NotSupported)
        badBook == FirstWhere(datasheets, NotReadable)
        validated == <<Ev("validate", 0)>>
                        \o [i \in 1..Min(badType, n) |-> Ev("validate", i)]
        prompt == Part("prompt", -1, "text", FileNames(datasheets))
        masterContent == getFileContentPart(masterList, 0)
        masterParts == <<prompt>> \o Attach(masterContent, 0)
        dsParts(k) == Flatten([i \in 1..k |->
                          Attach(getFileContentPart(datasheets[i], i), i)])
        normalized(k) == <<Ev("normalize", 0)>> \o [i \in 1..k |-> Ev("normalize", i)]
    IN  IF ~key THEN Sync(<<>>, <<>>, "credential")
        ELSE IF masterList = NoFile THEN Sync(<<>>, <<>>, "type_error")
        ELSE IF ~validateMimeType(masterList)
             THEN Sync(<<Ev("validate", 0)>>, <<>>, "unsupported")
        ELSE IF badType <= n THEN Sync(validated, <<>>, "unsupported")
        ELSE IF masterContent.threw THEN Sync(validated, <<prompt>>, "parse")
        ELSE IF NoDatasheets(datasheets)
             THEN Sync(validated \o normalized(0), masterParts, "no_datasheets")
        ELSE IF badBook <= n
             THEN Sync(validated \o normalized(badBook - 1),
                       masterParts \o dsParts(badBook - 1), "parse")
        ELSE Sync(validated \o normalized(n) \o <<Ev("remote", -1)>>,
                  masterParts \o dsParts(n), "none")

\* ------------------------------------------------------- the remote reply
\* A decoded JSON value: null, or an object with the top-level fields it
\* carries; inner tells whether every row/group carries its required fields.
\* allProvided is the value of that field, missing tells whether some part of
\* some row of groupedRows (original or substitute) has status 'Missing';
\* both read as false in a value that has no such field.
JsonValue(json, fields, inner) ==
    [json |-> json, fields |-> fields, inner |-> inner,
     allProvided |-> FALSE, missing |-> FALSE]
JsonNull == JsonValue("null", {}, FALSE)

CheckRequired == {"groupedRows", "allProvided", "message"}
AnalysisRequired == {"groups", "missingFiles"}

\* A complete CompletenessResult as the remote capability words it.
CompletenessResult(allProvided, missing) ==
    [JsonValue("object", CheckRequired, TRUE) EXCEPT !.allProvided = allProvided,
                                                     !.missing = missing]

\* What the remote capability may answer: null, a complete AnalysisResult, a
\* complete CompletenessResult (each object lacks the other's required
\* fields) saying all provided with no part missing, not all provided with a
\* part missing, or all provided with a part missing.
JsonValues ==
    { JsonNull,
      JsonValue("object", AnalysisRequired, TRUE),
      CompletenessResult(TRUE, FALSE),
      CompletenessResult(FALSE, TRUE),
      CompletenessResult(TRUE, TRUE) }

\* The reply text as a sequence of tokens: the opening fence (three backticks
\* and the word json), a newline, the closing fence (three backticks), a JSON
\* document, or text that is no JSON.
Token(tok, val) == [tok |-> tok, val |-> val]
FenceOpen == Token("fence_json", JsonNull)
NewLine == Token("newline", JsonNull)
FenceClose == Token("fence", JsonNull)
NotJson == Token("prose", JsonNull)
Tokens == {FenceOpen, NewLine, FenceClose, NotJson}
              \cup {Token("json", v) : v \in JsonValues}

SeqsUpTo(S, n) == UNION {[1..k -> S] : k \in 0..n}

\* Texts of at most MaxRespLen tokens, bare and wrapped in a code fence.
RespTexts ==
    SeqsUpTo(Tokens, MaxRespLen)
        \cup {<<FenceOpen, NewLine>> \o t \o <<NewLine, FenceClose>> :
                  t \in SeqsUpTo(Tokens, MaxRespLen)}

\* generateContent settles: it rejects, or resolves with a text.
Replies == {[rejected |-> TRUE, text |-> <<>>]}
               \cup {[rejected |-> FALSE, text |-> t] : t \in RespTexts}

RECURSIVE TrimStart(_)
TrimStart(t) ==
    IF t # <<>> /\ Head(t) = NewLine THEN TrimStart(Tail(t)) ELSE t

RECURSIVE TrimEnd(_)
TrimEnd(t) ==
    IF t # <<>> /\ t[Len(t)] = NewLine THEN TrimEnd(SubSeq(t, 1, Len(t) - 1)) ELSE t

\* String.prototype.trim
Trim(t) == TrimEnd(TrimStart(t))

\* StripFence with the second replace (the closing fence) left out.
StripFence_OpenOnly(text) ==
    LET jsonStr == Trim(text)
        noOpen == IF Len(jsonStr) >= 2 /\ jsonStr[2] = NewLine
                  THEN SubSeq(jsonStr, 3, Len(jsonStr)) ELSE jsonStr
    IN  IF jsonStr # <<>> /\ jsonStr[1] = FenceOpen THEN noOpen ELSE jsonStr

\* lines 219-222 / 373-376: strip the fence lines when the text starts with one.
StripFence(text) ==
    LET jsonStr == Trim(text)
        noOpen == IF Len(jsonStr) >= 2 /\ jsonStr[2] = NewLine
                  THEN SubSeq(jsonStr, 3, Len(jsonStr)) ELSE jsonStr
        n == Len(noOpen)
        noClose == IF n >= 2 /\ noOpen[n - 1] = NewLine /\ noOpen[n] = FenceClose
                   THEN SubSeq(noOpen, 1, n - 2) ELSE noOpen
    IN  IF jsonStr # <<>> /\ jsonStr[1] = FenceOpen THEN noClose ELSE jsonStr

Returned(value) == [threw |-> FALSE, value |-> value]
Threw == [threw |-> TRUE, value |-> JsonNull]

\* JSON.parse: one JSON document, white space around it allowed.
JSONparse(jsonStr) ==
    LET doc == Trim(jsonStr)
    IN  IF Len(doc) = 1 /\ doc[1].tok = "json" THEN Returned(doc[1].val) ELSE Threw

\* lines 217-228 / 369-382: what the function does once the call settles.
Extract(reply) ==
    IF reply.rejected THEN Threw
    ELSE IF reply.text = <<>> THEN Threw
    ELSE JSONparse(StripFence(reply.text))

\* ------------------------------------------ one service invocation, stepwise
Invocation(fn, masterList, datasheets) ==
    [fn |-> fn, masterList |-> masterList, datasheets |-> datasheets,
     pc |-> "called", log |-> <<>>, parts |-> <<>>, error |-> "none",
     value |-> JsonNull, message |-> <<>>, text |-> <<>>]

SvcIdle == [Invocation("none", NoFile, <<>>) EXCEPT !.pc = "idle"]

\* The file whose validateMimeType / getFileContentPart call threw: the master
\* list, or else the first datasheet that fails.
Offender(masterList, datasheets, Fails(_)) ==
    IF Fails(masterList) THEN masterList
    ELSE datasheets[FirstWhere(datasheets, Fails)]

\* The message of the error thrown before the await, as the fixed text and
\* the value interpolated into it: validateMimeType puts fileData.type
\* (line 101), getFileContentPart puts fileData.file.name (line 125).
ThrownMessage(fn, masterList, datasheets, error) ==
    CASE error = "unsupported" ->
            <<"Unsupported file type: ", Offender(masterList, datasheets, NotSupported).type>>
      [] error = "parse" ->
            <<"Failed to read Excel file: ", Offender(masterList, datasheets, NotReadable).name>>
      [] error = "no_datasheets" -> <<"No datasheets provided for analysis.">>
      [] error = "credential" ->
            IF fn = "check" THEN <<"API Key missing">> ELSE <<"API Key is missing.">>
      [] error = "type_error" -> <<"TypeError">>
      [] OTHER -> <<>>

\* The function body up to its await (checkFileCompleteness gets the names).
RunSync(key, s) ==
    LET r == IF s.fn = "check"
             THEN CheckSync(key, s.masterList, FileNames(s.datasheets))
             ELSE AnalyzeSync(key, s.masterList, s.datasheets)
    IN  [s EXCEPT !.pc = IF r.error = "none" THEN "awaiting" ELSE "threw",
                  !.log = r.log, !.parts = r.parts, !.error = r.error,
                  !.message = ThrownMessage(s.fn, s.masterList, s.datasheets, r.error)]

\* What a settled remote call can make of the rest of the function body.
Outcomes == {Extract(reply) : reply \in Replies}

\* Settle with one more attempt after a failed or undecodable reply.
Settle_Retry(s, x) ==
    IF x.threw /\ Len(SelectSeq(s.log, LAMBDA e : e.ev = "remote")) = 1
    THEN [s EXCEPT !.log = Append(@, Ev("remote", -1))]
    ELSE [s EXCEPT !.pc = IF x.threw THEN "threw" ELSE "returned",
                   !.error = IF x.threw THEN "extraction" ELSE "none",
                   !.value = x.value]

\* The function body after the await: return the decoded value x.value, or
\* throw the wrapped error.
Settle(s, x) ==
    [s EXCEPT !.pc = IF x.threw THEN "threw" ELSE "returned",
              !.error = IF x.threw THEN "extraction" ELSE "none",
              !.value = x.value]

\* Files handed to the service functions: a PDF, an image, a workbook, a
\* corrupt workbook, an .xls file tagged PDF by processFile, a Word file.
SvcFiles ==
    { FileData("x1", "a.pdf", PDF, FALSE),
      FileData("x1", "p.png", PNG, FALSE),
      FileData("x1", "m.xlsx", SHEET, TRUE),
      FileData("x1", "bad.xlsx", SHEET, FALSE),
      FileData("x1", "old.xls", PDF, TRUE),
      FileData("x1", "c.docx", DOCX, FALSE) }

SvcRun ==
    /\ svc.pc = "called"
    /\ svc' = RunSync(apiKey, svc)
    /\ UNCHANGED <<apiKey, appVars, upload, export>>

SvcSettle ==
    /\ svc.pc = "awaiting"
    /\ \E reply \in Replies :
          svc' = [Settle(svc, Extract(reply)) EXCEPT !.text = reply.text]
    /\ UNCHANGED <<apiKey, appVars, upload, export>>

\* --------------------------------------------------------- FileUploadCard
\* A File of the browser: its name, the media type the browser reports, and
\* whether its content is a workbook.
RawFile(name, type, workbook) == [name |-> name, type |-> type, workbook |-> workbook]

\* What the user drops on the master list card: a workbook, a corrupt one.
MasterFiles ==
    { RawFile("m.xlsx", SHEET, TRUE),
      RawFile("bad.xlsx", SHEET, FALSE) }

\* What the user drops on the datasheet card.
DatasheetFiles ==
    { RawFile("a.pdf", PDF, FALSE),
      RawFile("p.png", PNG, FALSE) }

\* Math.random().toString(36).substr(2, 9): each file read gets an id of its
\* own (two draws of nine base-36 digits are taken to differ).
IdOf(file) ==
    CASE file.name = "a.pdf" -> "x1"
      [] file.name = "p.png" -> "x2"
      [] file.name = "m.xlsx" -> "x3"
      [] OTHER -> "x4"

\* processFile, lines 34-37: each matching test overwrites mimeType.
mimeTypeOf(file) ==
    LET t0 == PDF
        t1 == IF TypeIncludes(file.type, "png") THEN PNG ELSE t0
        t2 == IF TypeIncludes(file.type, "jpeg") \/ TypeIncludes(file.type, "jpg")
              THEN JPEG ELSE t1
        t3 == IF TypeIncludes(file.type, "sheet") \/ NameEndsWith(file.name, ".xlsx")
              THEN SHEET ELSE t2
    IN  t3

processFile(file) == FileData(IdOf(file), file.name, mimeTypeOf(file), file.workbook)

\* One selection of the card in multiple mode: the files picked, the results
\* array of Promise.all (NoFile where the read is not done), the positions in
\* the order their reads completed, and where the handler stands.
Selection(files, results, order, pc) ==
    [files |-> files, results |-> results, order |-> order, pc |-> pc]
UploadIdle == Selection(<<>>, <<>>, <<>>, "idle")

\* ---------------------------------------------------------- AnalysisTable
\* Text is a sequence of characters; QUOTE and COMMA are the two that CSV
\* gives a meaning, any other string stands for text without them.
QUOTE == "quote"
COMMA == "comma"

\* Text with the run "x": plain, with double quotes, with a comma.
Texts == { <<"x">>, <<"x", QUOTE, "y", QUOTE>>, <<"x", COMMA, "y">> }

\* A SpecItem whose string fields all hold text.
SpecItem(text) ==
    [id |-> <<"1">>, parameter |-> text, unit |-> text, valueA |-> text,
     valueB |-> text, complianceB |-> <<"Fully Compliant">>, valueC |-> text,
     complianceC |-> <<"Non-Compliant">>, comment |-> text]

\* A ComparisonGroup whose part names and summary all hold text.
ComparisonGroup(text, specs) ==
    [mappedParts |-> [partA |-> text, partB |-> text, partC |-> text],
     summary |-> text, recommendation |-> <<"B">>, specs |-> specs]

ComparisonGroups ==
    {ComparisonGroup(text, specs) :
        text \in Texts, specs \in SeqsUpTo({SpecItem(t) : t \in Texts}, MaxSpecs)}

\* The AnalysisResult the table shows.
AnalysisResults == [groups : SeqsUpTo(ComparisonGroups, MaxGroups)]

\* String.prototype.replace(/"/g, '""') keeping the text as it is.
Escape_Raw(text) == text

\* String.prototype.replace(/"/g, '""')
Escape(text) ==
    Flatten([k \in 1..Len(text) |->
                IF text[k] = QUOTE THEN <<QUOTE, QUOTE>> ELSE <<text[k]>>])

\* The template `"${text}"`.
Quoted(text) == <<QUOTE>> \o text \o <<QUOTE>>

\* Array.prototype.join(",")
RECURSIVE Join(_)
Join(cells) ==
    IF cells = <<>> THEN <<>>
    ELSE IF Len(cells) = 1 THEN cells[1]
    ELSE cells[1] \o <<COMMA>> \o Join(Tail(cells))

\* getGroupLabel: String.fromCharCode(65 + index), index from 0.
getGroupLabel(index) == <<"A", "B", "C", "D">>[index + 1]

\* exportCSV, lines 68-82: the three header lines and the table header.
GroupHead(group, index) ==
    LET groupLabel == getGroupLabel(index)
        partA == group.mappedParts.partA
        partB == group.mappedParts.partB
        partC == group.mappedParts.partC
        headers ==
            << <<"ID">>, <<"Parameter">>, <<"Unit">>,
               <<"Spec ", groupLabel, " (">> \o Escape(partA) \o <<")">>,
               <<"Spec ", groupLabel, "-1", " (">> \o Escape(partB) \o <<")">>,
               <<groupLabel, "-1", " Result">>,
               <<"Spec ", groupLabel, "-2", " (">> \o Escape(partC) \o <<")">>,
               <<groupLabel, "-2", " Result">>,
               <<"Comment">> >>
    IN  << Quoted(<<"GROUP ", groupLabel, ": ">> \o Escape(partA) \o <<" vs Substitutes">>),
           Quoted(<<"Summary: ">> \o Escape(group.summary)),
           Quoted(<<"Recommendation: ">> \o group.recommendation),
           Join(headers) >>

\* exportCSV, lines 89-111: the data line of one SpecItem.
DataLine(s) ==
    Join(<< s.id,
            Quoted(Escape(s.parameter)), Quoted(Escape(s.unit)),
            Quoted(Escape(s.valueA)), Quoted(Escape(s.valueB)),
            Quoted(s.complianceB),
            Quoted(Escape(s.valueC)), Quoted(s.complianceC),
            Quoted(Escape(s.comment)) >>)

\* exportCSV, lines 55-117: the lines pushed for one group.
GroupLines(group, index) ==
    GroupHead(group, index)
        \o [j \in 1..Len(group.specs) |-> DataLine(group.specs[j])]
        \o << <<>>, <<>> >>

\* csvRows after the forEach over result.groups.
csvRows(result) ==
    Flatten([g \in 1..Len(result.groups) |-> GroupLines(result.groups[g], g - 1)])

\* What the table holds: the result shown, whether a file was handed to the
\* browser by the last click on Export, and the lines of that file.
Export(result, saved, lines) == [result |-> result, saved |-> saved, lines |-> lines]
NoExport == Export([groups |-> <<>>], FALSE, <<>>)

\* exportCSV: the alert when there is no group, else the download.
exportCSV ==
    /\ export' =
          IF Len(export.result.groups) = 0
          THEN Export(export.result, FALSE, <<>>)
          ELSE Export(export.result, TRUE, csvRows(export.result))
    /\ UNCHANGED <<apiKey, state, calls, pending, svc, upload>>

\* ----------------------------------------------------------------- the App
\* checkResult / result: the decoded value with the arguments of the call
\* that produced it (masterList, and filenames or datasheets).
Result(value, masterList, datasheets) ==
    [value |-> value, masterList |-> masterList, datasheets |-> datasheets]
NoResult == Result(JsonNull, NoFile, <<>>)
Installed(value, masterList, datasheets) ==
    IF value = JsonNull THEN NoResult ELSE Result(value, masterList, datasheets)

InitialState ==
    [masterList |-> NoFile, datasheets |-> <<>>, isAnalyzing |-> FALSE,
     isChecking |-> FALSE, checkResult |-> NoResult, result |-> NoResult,
     error |-> NULL]

\* The catch of a rejected call runs before any other event is handled.
NoMicrotask == \A k \in 1..Len(calls) : calls[k].inv.pc # "threw"

\* App renders AnalysisTable alone when state.result is set (line 86).
MainView == state.result = NoResult /\ NoMicrotask
TableView == state.result # NoResult /\ NoMicrotask

\* handleFileChange / handleDrop of the master list card (single mode),
\* shown as a drop zone only while no master list is held: the read starts.
SelectMaster ==
    /\ MainView
    /\ state.masterList = NoFile
    /\ "master" \notin pending
    /\ pending' = pending \cup {"master"}
    /\ UNCHANGED <<apiKey, state, calls, svc, upload, export>>

\* handleFileChange / handleDrop of the datasheet card (multiple mode): the
\* reads of Promise.all(files.map(processFile)) start.
SelectDatasheets ==
    /\ MainView
    /\ "datasheets" \notin pending
    /\ pending' = pending \cup {"datasheets"}
    /\ UNCHANGED <<apiKey, state, calls, svc, upload, export>>

\* handleDatasheetSelect
handleDatasheetSelect(prev, newArray) ==
    [prev EXCEPT !.datasheets = prev.datasheets \o newArray,
                 !.checkResult = NoResult,
                 !.result = NoResult]

\* onFileSelect of the master list card (line 141)
masterOnFileSelect(prev, f) ==
    [prev EXCEPT !.masterList = f, !.checkResult = NoResult]

\* The selected files, each put through processFile, in selection order.
Processed(files) == [k \in 1..Len(files) |-> processFile(files[k])]

\* The files of a selection are distinct and none of them is held already.
Fresh(files, held) ==
    /\ \A i, j \in 1..Len(files) : files[i] = files[j] => i = j
    /\ \A i \in 1..Len(files) : \A k \in 1..Len(held) : held[k].name # files[i].name

\* The read of the master list card's file is done: onFileSelect(processed).
MasterRead ==
    /\ NoMicrotask
    /\ "master" \in pending
    /\ pending' = pending \ {"master"}
    /\ \E file \in MasterFiles : state' = masterOnFileSelect(state, processFile(file))
    /\ UNCHANGED <<apiKey, calls, svc, upload, export>>

\* Every read of the datasheet card's selection is done: onFileSelect(processed).
DatasheetsRead ==
    /\ NoMicrotask
    /\ "datasheets" \in pending
    /\ pending' = pending \ {"datasheets"}
    /\ \E files \in SeqsUpTo(DatasheetFiles, Cardinality(DatasheetFiles)) :
          /\ files # <<>>
          /\ Fresh(files, state.datasheets)
          /\ state' = handleDatasheetSelect(state, Processed(files))
    /\ UNCHANGED <<apiKey, calls, svc, upload, export>>

\* fileToBase64 rejects for a file: the selection's promise rejects and
\* onFileSelect is not called.
ReadFail ==
    /\ NoMicrotask
    /\ \E card \in pending : pending' = pending \ {card}
    /\ UNCHANGED <<apiKey, state, calls, svc, upload, export>>

\* The X button of the master list card: onFileSelect(null).
RemoveMaster ==
    /\ MainView
    /\ state.masterList # NoFile
    /\ state' = masterOnFileSelect(state, NoFile)
    /\ UNCHANGED <<apiKey, calls, pending, svc, upload, export>>

removeDatasheetState(prev, id) ==
    LET Other(f) == f.id # id
    IN  [prev EXCEPT !.datasheets = SelectSeq(prev.datasheets, Other),
                     !.checkResult = NoResult]

removeDatasheet ==
    /\ MainView
    /\ \E i \in 1..Len(state.datasheets) :
          state' = removeDatasheetState(state, state.datasheets[i].id)
    /\ UNCHANGED <<apiKey, calls, pending, svc, upload, export>>

clearAllState(prev) == [prev EXCEPT !.datasheets = <<>>, !.checkResult = NoResult]

\* The Clear All button (line 176), shown while the list is not empty.
ClearAll ==
    /\ MainView
    /\ state.datasheets # <<>>
    /\ state' = clearAllState(state)
    /\ UNCHANGED <<apiKey, calls, pending, svc, upload, export>>

\* The Check Completeness button is enabled (line 204); the handler's own
\* test (line 43) is the same on masterList and datasheets.
CheckEnabled ==
    /\ MainView
    /\ state.masterList # NoFile
    /\ state.datasheets # <<>>
    /\ ~state.isChecking

\* The Start Analysis button is rendered with the check result and enabled
\* (lines 227, 235); the handler's own test is line 58.
AnalyzeEnabled ==
    /\ MainView
    /\ state.checkResult # NoResult
    /\ ~state.isAnalyzing
    /\ state.masterList # NoFile
    /\ state.datasheets # <<>>

\* A call in flight: the invocation the handler awaits.
Call(inv) == [inv |-> inv]

\* calls without its k-th element
Without(seq, k) == SubSeq(seq, 1, k - 1) \o SubSeq(seq, k + 1, Len(seq))

\* handleCheckCompleteness up to its await: line 45 and the call of line 48.
handleCheckCompleteness ==
    /\ CheckEnabled
    /\ Len(calls) < MaxInFlight
    /\ state' = [state EXCEPT !.isChecking = TRUE, !.error = NULL]
    /\ calls' = Append(calls,
          Call(RunSync(apiKey, Invocation("check", state.masterList, state.datasheets))))
    /\ UNCHANGED <<apiKey, pending, svc, upload, export>>

\* handleAnalyze up to its await: line 60 and the call of line 63.
handleAnalyze ==
    /\ AnalyzeEnabled
    /\ Len(calls) < MaxInFlight
    /\ state' = [state EXCEPT !.isAnalyzing = TRUE, !.error = NULL]
    /\ calls' = Append(calls,
          Call(RunSync(apiKey, Invocation("analyze", state.masterList, state.datasheets))))
    /\ UNCHANGED <<apiKey, pending, svc, upload, export>>

\* checkSettled with a catch that reports the error and forgets the flag.
checkSettled_FlagLeft(prev, inv) ==
    IF inv.pc = "returned"
    THEN [prev EXCEPT !.isChecking = FALSE,
                      !.checkResult = Installed(inv.value, inv.masterList,
                                                FileNames(inv.datasheets))]
    ELSE [prev EXCEPT !.error = inv.error]

\* handleCheckCompleteness after its await: line 49, or the catch of line 52.
checkSettled(prev, inv) ==
    IF inv.pc = "returned"
    THEN [prev EXCEPT !.isChecking = FALSE,
                      !.checkResult = Installed(inv.value, inv.masterList,
                                                FileNames(inv.datasheets))]
    ELSE [prev EXCEPT !.isChecking = FALSE, !.error = inv.error]

\* analyzeSettled with a catch that also sends the session back before the
\* completeness check.
analyzeSettled_CheckDropped(prev, inv) ==
    IF inv.pc = "returned"
    THEN [prev EXCEPT !.result = Installed(inv.value, inv.masterList, inv.datasheets),
                      !.isAnalyzing = FALSE]
    ELSE [prev EXCEPT !.isAnalyzing = FALSE, !.error = inv.error,
                      !.checkResult = NoResult]

\* handleAnalyze after its await: line 64, or the catch of lines 66-70.
analyzeSettled(prev, inv) ==
    IF inv.pc = "returned"
    THEN [prev EXCEPT !.result = Installed(inv.value, inv.masterList, inv.datasheets),
                      !.isAnalyzing = FALSE]
    ELSE [prev EXCEPT !.isAnalyzing = FALSE, !.error = inv.error]

settled(prev, inv) ==
    IF inv.fn = "check" THEN checkSettled(prev, inv) ELSE analyzeSettled(prev, inv)

\* The service call threw before its await: the handler's catch runs.
CallRejected ==
    /\ \E k \in 1..Len(calls) :
          /\ calls[k].inv.pc = "threw"
          /\ state' = settled(state, calls[k].inv)
          /\ calls' = Without(calls, k)
    /\ UNCHANGED <<apiKey, pending, svc, upload, export>>

\* The remote call of the k-th service call in flight settles.
CallSettledAt(k) ==
    /\ NoMicrotask
    /\ k \in 1..Len(calls)
    /\ calls[k].inv.pc = "awaiting"
    /\ \E x \in Outcomes : state' = settled(state, Settle(calls[k].inv, x))
    /\ calls' = Without(calls, k)
    /\ UNCHANGED <<apiKey, pending, svc, upload, export>>

CallSettled == \E k \in 1..Len(calls) : CallSettledAt(k)

\* reset, the onReset of AnalysisTable.
reset ==
    /\ TableView
    /\ state' = InitialState
    /\ UNCHANGED <<apiKey, calls, pending, svc, upload, export>>

Init ==
    /\ apiKey \in BOOLEAN
    /\ state = InitialState
    /\ calls = <<>>
    /\ pending = {}
    /\ svc = SvcIdle
    /\ upload = UploadIdle
    /\ export = NoExport

Next ==
    \/ SelectMaster
    \/ SelectDatasheets
    \/ MasterRead
    \/ DatasheetsRead
    \/ ReadFail
    \/ RemoveMaster
    \/ removeDatasheet
    \/ ClearAll
    \/ handleCheckCompleteness
    \/ handleAnalyze
    \/ CallRejected
    \/ CallSettled
    \/ reset

Spec == Init /\ [][Next]_vars

\* Every issued call settles (the oldest one in flight does, again and
\* again), and a pending catch runs.
FairSpec ==
    /\ Spec
    /\ WF_vars(CallRejected)
    /\ SF_vars(CallSettledAt(1))

\* One invocation of a service function on arbitrary arguments.
InitService ==
    /\ apiKey \in BOOLEAN
    /\ state = InitialState
    /\ calls = <<>>
    /\ pending = {}
    /\ upload = UploadIdle
    /\ export = NoExport
    /\ \E fn \in {"check", "analyze"} :
       \E masterList \in SvcFiles \cup {NoFile} :
       \E datasheets \in SeqsUpTo(SvcFiles, MaxSvcDatasheets) :
          svc = Invocation(fn, masterList, datasheets)

NextService == SvcRun \/ SvcSettle

SpecService == InitService /\ [][NextService]_vars

\* ------------------------------------------- the datasheet card, read by read
\* What Math.random().toString(36).substr(2, 9) can return.
Ids == {"x1", "x2"}

\* Files as the browser reports them: a PDF, images, a workbook, an .xls
\* workbook, and a file reported as an image under a name ending with .xlsx.
UploadFiles ==
    { RawFile("a.pdf", PDF, FALSE),
      RawFile("a.pdf", PNG, FALSE),
      RawFile("a.pdf", JPEG, FALSE),
      RawFile("m.xlsx", SHEET, TRUE),
      RawFile("m.xlsx", PNG, TRUE),
      RawFile("old.xls", XLS, TRUE) }

\* processFile with the id its Math.random() call draws.
processFileAs(file, id) == [processFile(file) EXCEPT !.id = id]

\* Promise.all handing over the results in the order the reads completed.
PromiseAll_CompletionOrder(results, order) == [k \in 1..Len(order) |-> results[order[k]]]

\* Promise.all: the fulfilment values by position in the input array.
PromiseAll(results, order) == results

\* handleFileChange / handleDrop, multiple mode, up to the await:
\* files.map(processFile) starts the read of every file.
handleFileChange ==
    /\ upload.pc # "reading"
    /\ \E files \in SeqsUpTo(UploadFiles, MaxHeld - Len(state.datasheets)) :
          /\ files # <<>>
          /\ upload' = Selection(files, [i \in 1..Len(files) |-> NoFile], <<>>, "reading")
    /\ UNCHANGED <<apiKey, state, calls, pending, svc, export>>

\* The read of the i-th file is done: its processFile call returns.
fileRead(i) ==
    /\ upload.pc = "reading"
    /\ i \in 1..Len(upload.files)
    /\ upload.results[i] = NoFile
    /\ \E id \in Ids :
          upload' = [upload EXCEPT !.results[i] = processFileAs(upload.files[i], id),
                                   !.order = Append(@, i)]
    /\ UNCHANGED <<apiKey, state, calls, pending, svc, export>>

\* fileReadFails with a handler that hands over the files read so far.
fileReadFails_PartialDelivery ==
    /\ upload.pc = "reading"
    /\ \E i \in 1..Len(upload.files) : upload.results[i] = NoFile
    /\ LET Read(f) == f # NoFile
       IN  state' = handleDatasheetSelect(state, SelectSeq(upload.results, Read))
    /\ upload' = [upload EXCEPT !.pc = "failed"]
    /\ UNCHANGED <<apiKey, calls, pending, svc, export>>

\* fileToBase64 rejects for some file still being read: Promise.all rejects,
\* the handler ends at its await and onFileSelect is not called.
fileReadFails ==
    /\ upload.pc = "reading"
    /\ \E i \in 1..Len(upload.files) : upload.results[i] = NoFile
    /\ upload' = [upload EXCEPT !.pc = "failed"]
    /\ UNCHANGED <<apiKey, state, calls, pending, svc, export>>

\* Every read is done: the handler goes on with onFileSelect(processed).
filesDelivered ==
    /\ upload.pc = "reading"
    /\ \A i \in 1..Len(upload.files) : upload.results[i] # NoFile
    /\ state' = handleDatasheetSelect(state, PromiseAll(upload.results, upload.order))
    /\ upload' = [upload EXCEPT !.pc = "delivered"]
    /\ UNCHANGED <<apiKey, calls, pending, svc, export>>

\* The remove button of a datasheet row.
datasheetRemoved ==
    /\ \E i \in 1..Len(state.datasheets) :
          state' = removeDatasheetState(state, state.datasheets[i].id)
    /\ UNCHANGED <<apiKey, calls, pending, svc, upload, export>>

NextUpload ==
    \/ handleFileChange
    \/ \E i \in 1..MaxHeld : fileRead(i)
    \/ fileReadFails
    \/ filesDelivered
    \/ datasheetRemoved

SpecUpload == Init /\ [][NextUpload]_vars

\* The table is shown with a result of the analysis.
InitExport ==
    /\ apiKey = TRUE
    /\ state = InitialState
    /\ calls = <<>>
    /\ pending = {}
    /\ svc = SvcIdle
    /\ upload = UploadIdle
    /\ \E result \in AnalysisResults : export = Export(result, FALSE, <<>>)

NextExport == exportCSV

SpecExport == InitExport /\ [][NextExport]_vars

\* ------------------------------------------------------------------ claims
InFlight(fn) == {k \in 1..Len(calls) : calls[k].inv.fn = fn}

\* A call of fn leaves calls in this step.
Settles(fn) ==
    \E k \in InFlight(fn) : calls' = Without(calls, k)

\* C1: a loading flag set by handleCheckCompleteness / handleAnalyze is false
\* again when the call settles, whether it returned or threw, and, every call
\* settling, no run keeps isChecking or isAnalyzing true for ever.
C1_FlagsCleared ==
    /\ [][(Settles("check") => ~state'.isChecking)
            /\ (Settles("analyze") => ~state'.isAnalyzing)]_vars
    /\ (state.isChecking ~> ~state.isChecking)
    /\ (state.isAnalyzing ~> ~state.isAnalyzing)

\* A remote call failed and both flags are down again.
C1_Witness ==
    /\ state.error = "extraction"
    /\ ~state.isChecking
    /\ ~state.isAnalyzing
    /\ calls = <<>>

\* C2: a completeness check and a full analysis are never both in flight.
C2_OnePhaseInFlight == ~(state.isChecking /\ state.isAnalyzing)

\* C3: no second check (analysis) starts while an earlier one has not settled.
C3_SamePhaseSerialized ==
    /\ Cardinality(InFlight("check")) <= 1
    /\ Cardinality(InFlight("analyze")) <= 1

\* C4: a non-null checkResult answers a check issued with the current master
\* list and the current datasheet file names.
C4_CheckResultCurrent ==
    state.checkResult # NoResult =>
        /\ state.checkResult.masterList = state.masterList
        /\ state.checkResult.datasheets = FileNames(state.datasheets)

\* C5: a non-null result was computed from the current master list and the
\* current datasheets.
C5_ResultCurrent ==
    state.result # NoResult =>
        /\ state.result.masterList = state.masterList
        /\ state.result.datasheets = state.datasheets

\* Number of generateContent calls the invocation has issued.
Remotes(log) == Len(SelectSeq(log, LAMBDA e : e.ev = "remote"))

Ran == svc.pc \in {"awaiting", "returned", "threw"}

\* The master list is there, of a supported type, and readable.
MasterUsable ==
    /\ svc.masterList # NoFile
    /\ validateMimeType(svc.masterList)
    /\ ~getFileContentPart(svc.masterList, 0).threw

\* C6 as stated: with zero datasheets analyzeDatasheets fails with the
\* input-validation error and issues no remote call.
C6_ZeroDatasheetsRejected ==
    (Ran /\ svc.fn = "analyze" /\ svc.datasheets = <<>>) =>
        /\ svc.pc = "threw"
        /\ svc.error = "no_datasheets"
        /\ Remotes(svc.log) = 0

\* C6 amended: with zero datasheets analyzeDatasheets fails and issues no
\* remote call; the failure is the input-validation error exactly when the API
\* key is set and the master list is present, supported and readable.
C6_ZeroDatasheetsFail ==
    (Ran /\ svc.fn = "analyze" /\ svc.datasheets = <<>>) =>
        /\ svc.pc = "threw"
        /\ Remotes(svc.log) = 0
        /\ (svc.error = "no_datasheets") <=> (apiKey /\ MasterUsable)

C6_Witness ==
    /\ svc.fn = "analyze"
    /\ svc.datasheets = <<>>
    /\ svc.pc = "threw"
    /\ svc.error = "no_datasheets"

\* C7: both service functions reject a missing master list or an empty
\* datasheet set with an input-validation failure, before any remote call.
C7_InputsValidated ==
    (Ran /\ apiKey /\ (svc.masterList = NoFile \/ svc.datasheets = <<>>)) =>
        /\ svc.pc = "threw"
        /\ svc.error = "no_datasheets"
        /\ Remotes(svc.log) = 0

\* C8: without an API key both functions fail before any file is validated
\* or normalized and before any remote request.
C8_CredentialFirst ==
    (Ran /\ ~apiKey) =>
        /\ svc.pc = "threw"
        /\ svc.error = "credential"
        /\ svc.log = <<>>
        /\ svc.parts = <<>>

C8_Witness ==
    /\ ~apiKey
    /\ svc.pc = "threw"
    /\ svc.masterList # NoFile
    /\ svc.datasheets # <<>>

\* Every pre-flight check of the invocation passes.
PreflightPasses ==
    /\ apiKey
    /\ MasterUsable
    /\ svc.fn = "analyze" =>
          /\ svc.datasheets # <<>>
          /\ \A i \in 1..Len(svc.datasheets) :
                /\ validateMimeType(svc.datasheets[i])
                /\ ~getFileContentPart(svc.datasheets[i], i).threw

\* C9: an invocation whose pre-flight checks pass issues exactly one remote
\* call, whatever the reply (no retry, no cached result); any other issues none.
C9_ExactlyOneCall ==
    Ran => Remotes(svc.log) = IF PreflightPasses THEN 1 ELSE 0

\* The one call failed and the function threw without another attempt.
C9_Witness ==
    /\ svc.pc = "threw"
    /\ svc.error = "extraction"
    /\ Remotes(svc.log) = 1

Required(fn) == IF fn = "check" THEN CheckRequired ELSE AnalysisRequired

\* C10: a value returned by either function is an object with every required
\* field, at the top level and in each row or group.
C10_SchemaValid ==
    svc.pc = "returned" =>
        /\ svc.value.json = "object"
        /\ Required(svc.fn) \subseteq svc.value.fields
        /\ svc.value.inner

\* C11: a CompletenessResult held in checkResult has allProvided true exactly
\* when no part of any row, original or substitute, has status Missing.
C11_AllProvidedIffNoneMissing ==
    (state.checkResult # NoResult /\ CheckRequired \subseteq state.checkResult.value.fields) =>
        (state.checkResult.value.allProvided <=> ~state.checkResult.value.missing)

\* The declared content kinds that are spreadsheets.
SpreadsheetKinds == {SHEET, XLS}

\* C12: the content part built for the master list is a text part exactly
\* when the file's content kind is a spreadsheet, and otherwise an inline part
\* carrying the file's own content kind.
C12_TextIffSpreadsheet ==
    (svc.fn = "check" /\ svc.pc = "awaiting") =>
        LET content == svc.parts[Len(svc.parts)]
        IN  /\ (content.what = "csv") <=> (svc.masterList.type \in SpreadsheetKinds)
            /\ content.what = "inline" => content.mime = svc.masterList.type

\* The content kind by the stated priority: the first matching rule wins.
FirstMatch(file) ==
    IF TypeIncludes(file.type, "png") THEN PNG
    ELSE IF TypeIncludes(file.type, "jpeg") \/ TypeIncludes(file.type, "jpg") THEN JPEG
    ELSE IF TypeIncludes(file.type, "sheet") \/ NameEndsWith(file.name, ".xlsx") THEN SHEET
    ELSE PDF

\* C13: every file read by processFile gets the content kind of the first
\* matching rule: png, then jpeg/jpg, then sheet or .xlsx, else PDF.
C13_FirstRuleWins ==
    \A i \in 1..Len(upload.results) :
        upload.results[i] # NoFile => upload.results[i].type = FirstMatch(upload.files[i])

\* The files an invocation hands over as content: the master list, and for
\* the full analysis the datasheets (the check gets their names only).
Handed ==
    <<svc.masterList>> \o (IF svc.fn = "analyze" THEN svc.datasheets ELSE <<>>)

\* The first file in Handed that fails the test.
FirstFailing(Fails(_)) == Handed[FirstWhere(Handed, Fails)]

\* The position (0 master list, i datasheet) of a file of Handed.
Normalized(who) == \E k \in 1..Len(svc.log) : svc.log[k] = Ev("normalize", who)

\* The value interpolated into the thrown message.
Named == IF Len(svc.message) = 2 THEN svc.message[2] ELSE ""

\* C14: when a file handed to a phase has an unsupported type, the phase
\* fails with the unsupported-type error, the message names the rejected file,
\* that file is not normalized and no remote call is issued.
C14_UnsupportedNamesFile ==
    (Ran /\ apiKey /\ svc.masterList # NoFile
         /\ \E k \in 1..Len(Handed) : NotSupported(Handed[k])) =>
        /\ svc.pc = "threw"
        /\ svc.error = "unsupported"
        /\ Named = FirstFailing(NotSupported).name
        /\ ~Normalized(FirstWhere(Handed, NotSupported) - 1)
        /\ Remotes(svc.log) = 0

\* A spreadsheet whose payload XLSX.read cannot decode.
Undecodable(fileData) == isExcel(fileData) /\ ~fileData.workbook

\* C15: when the invocation comes to normalize a spreadsheet whose payload is
\* no workbook (the key is set, every file handed over is of a supported
\* type), it fails with the parse error naming the first such file and issues
\* no remote call.
C15_ParseErrorNamesFile ==
    (Ran /\ apiKey /\ svc.masterList # NoFile
         /\ (\A k \in 1..Len(Handed) : ~NotSupported(Handed[k]))
         /\ (\E k \in 1..Len(Handed) : Undecodable(Handed[k]))) =>
        /\ svc.pc = "threw"
        /\ svc.error = "parse"
        /\ svc.message[1] = "Failed to read Excel file: "
        /\ Named = FirstFailing(Undecodable).name
        /\ Remotes(svc.log) = 0

\* The analysis fails on a corrupt datasheet after the master list was read.
C15_Witness ==
    /\ svc.fn = "analyze"
    /\ svc.pc = "threw"
    /\ svc.error = "parse"
    /\ ~Undecodable(svc.masterList)
    /\ Named = "bad.xlsx"
    /\ Normalized(0)

\* The reply text is a payload between a leading and a trailing fence line.
Wrapped(text) ==
    /\ Len(text) >= 4
    /\ text[1] = FenceOpen /\ text[2] = NewLine
    /\ text[Len(text) - 1] = NewLine /\ text[Len(text)] = FenceClose

\* The payload of the reply text: what the fence lines surround, or all of it.
Payload(text) == IF Wrapped(text) THEN SubSeq(text, 3, Len(text) - 2) ELSE text

\* The JSON documents in a text.
Documents(text) == SelectSeq(text, LAMBDA t : t.tok = "json")

\* A valid JSON payload: one JSON document, with white space around it or not.
ValidJson(text) ==
    /\ Len(Documents(text)) = 1
    /\ \A k \in 1..Len(text) : text[k].tok \in {"json", "newline"}

\* C16: a reply whose payload is valid JSON decodes to the payload's value,
\* whether the payload comes wrapped in a code fence or bare.
C16_FenceStripped ==
    (svc.pc \in {"returned", "threw"} /\ svc.error \in {"none", "extraction"}
        /\ ValidJson(Payload(svc.text))) =>
        /\ svc.pc = "returned"
        /\ svc.value = Documents(Payload(svc.text))[1].val

\* A fenced CompletenessResult was decoded.
C16_Witness ==
    /\ svc.pc = "returned"
    /\ Wrapped(svc.text)
    /\ svc.value = CompletenessResult(FALSE, TRUE)

\* The parts were handed to generateContent.
Sent == Remotes(svc.log) = 1

\* Positions in parts of the content parts (text of a workbook, inline data).
ContentAt ==
    SelectSeq([k \in 1..Len(svc.parts) |-> k],
              LAMBDA k : svc.parts[k].what \in {"csv", "inline"})

Marker(who) == Part("marker", who, "text", <<>>)

\* C17: the parts sent for the completeness check are the instruction text,
\* which lists the datasheets' file names, and then the master list's content
\* alone (its text, or its marker and its inline data); nothing of a datasheet.
C17_CheckAttachesMasterOnly ==
    (svc.fn = "check" /\ Sent) =>
        /\ svc.parts[1] = Part("prompt", -1, "text", FileNames(svc.datasheets))
        /\ \A k \in 2..Len(svc.parts) : svc.parts[k].who = 0 /\ svc.parts[k].names = <<>>
        /\ Len(ContentAt) = 1
        /\ svc.parts[Len(svc.parts)].what \in {"csv", "inline"}
        /\ Len(svc.parts) = IF svc.parts[Len(svc.parts)].what = "csv" THEN 2 ELSE 3
        /\ Len(svc.parts) = 3 => svc.parts[2] = Marker(0)

\* A check with two datasheets of different kinds and a PDF master list.
C17_Witness ==
    /\ svc.fn = "check" /\ Sent
    /\ Len(svc.datasheets) = 2
    /\ svc.datasheets[1].type # svc.datasheets[2].type
    /\ Len(svc.parts) = 3

\* C18 as stated: the parts sent for the full analysis hold the content of the
\* master list and of every datasheet, in that order, and the content part of
\* every file comes right after a marker part for that file.
C18_EveryContentAfterMarker ==
    (svc.fn = "analyze" /\ Sent) =>
        /\ Len(ContentAt) = Len(Handed)
        /\ \A j \in 1..Len(ContentAt) :
              /\ svc.parts[ContentAt[j]].who = j - 1
              /\ svc.parts[ContentAt[j] - 1] = Marker(j - 1)

\* C18 amended: the content of the master list and of every datasheet, in
\* that order; inline data (PDF, image) comes right after a marker part for
\* its file, while the text of a workbook carries the label of its file in
\* itself and has no marker part before it.
C18_ContentInOrderLabelled ==
    (svc.fn = "analyze" /\ Sent) =>
        /\ svc.parts[1].what = "prompt"
        /\ Len(ContentAt) = Len(Handed)
        /\ \A j \in 1..Len(ContentAt) :
              LET k == ContentAt[j]
              IN  /\ svc.parts[k].who = j - 1
                  /\ svc.parts[k].what = "inline" =>
                        /\ svc.parts[k].mime = Handed[j].type
                        /\ svc.parts[k - 1] = Marker(j - 1)
                  /\ svc.parts[k].what = "csv" => svc.parts[k - 1].what # "marker"
        /\ \A k \in 2..Len(svc.parts) :
              svc.parts[k].what = "marker" =>
                  k < Len(svc.parts) /\ svc.parts[k + 1].what = "inline"

\* An analysis of a workbook datasheet followed by a PDF or image datasheet.
C18_Witness ==
    /\ svc.fn = "analyze" /\ Sent
    /\ Len(svc.datasheets) = 2
    /\ \E k \in 2..Len(svc.parts) : svc.parts[k] = Part("csv", 1, "text", <<>>)
    /\ svc.parts[Len(svc.parts)].what = "inline"
    /\ svc.parts[Len(svc.parts)].who = 2

\* C19: whatever the order in which the reads of a selection complete, the
\* files handed to onFileSelect and appended to datasheets are the files of
\* the selection in selection order.
C19_SelectionOrderKept ==
    [][(upload.pc = "reading" /\ upload'.pc = "delivered") =>
          /\ Len(state'.datasheets) = Len(state.datasheets) + Len(upload.files)
          /\ SubSeq(state'.datasheets, 1, Len(state.datasheets)) = state.datasheets
          /\ \A i \in 1..Len(upload.files) :
                LET d == state'.datasheets[Len(state.datasheets) + i]
                IN  /\ d.name = upload.files[i].name
                    /\ d.type = mimeTypeOf(upload.files[i])
                    /\ d = upload.results[i]]_vars

\* Two files were delivered whose reads completed in the opposite order.
C19_Witness ==
    /\ upload.pc = "delivered"
    /\ upload.order = <<2, 1>>
    /\ upload.files[1].name # upload.files[2].name
    /\ Len(state.datasheets) = 2
    /\ state.datasheets[1].name = upload.files[1].name
    /\ state.datasheets[2].name = upload.files[2].name

\* C20: the ids of the datasheets held are pairwise distinct.
C20_IdsDistinct ==
    \A i, j \in 1..Len(state.datasheets) :
        state.datasheets[i].id = state.datasheets[j].id => i = j

\* A CSV reader on one line: the cells it yields, and whether the line is
\* well formed. A cell that starts with a double quote runs to the closing
\* one, a doubled quote inside standing for one quote; any other cell runs to
\* the next comma.
RECURSIVE ReadCells(_, _, _, _)
ReadCells(rest, mode, cell, cells) ==
    IF rest = <<>>
    THEN [ok |-> mode # "quoted", cells |-> Append(cells, cell)]
    ELSE LET c == Head(rest)
         IN  CASE mode = "start" ->
                    IF c = QUOTE THEN ReadCells(Tail(rest), "quoted", <<>>, cells)
                    ELSE IF c = COMMA THEN ReadCells(Tail(rest), "start", <<>>, Append(cells, <<>>))
                    ELSE ReadCells(Tail(rest), "bare", <<c>>, cells)
               [] mode = "bare" ->
                    IF c = COMMA THEN ReadCells(Tail(rest), "start", <<>>, Append(cells, cell))
                    ELSE ReadCells(Tail(rest), "bare", Append(cell, c), cells)
               [] mode = "quoted" ->
                    IF c # QUOTE THEN ReadCells(Tail(rest), "quoted", Append(cell, c), cells)
                    ELSE IF Len(rest) >= 2 /\ rest[2] = QUOTE
                         THEN ReadCells(Tail(Tail(rest)), "quoted", Append(cell, QUOTE), cells)
                         ELSE ReadCells(Tail(rest), "closed", cell, cells)
               [] OTHER ->
                    IF c = COMMA THEN ReadCells(Tail(rest), "start", <<>>, Append(cells, cell))
                    ELSE [ok |-> FALSE, cells |-> cells]

ReadLine(line) == ReadCells(line, "start", <<>>, <<>>)

\* Where the lines of the g-th group start in the exported file, less one.
RECURSIVE LinesBefore(_, _)
LinesBefore(result, g) ==
    IF g = 1 THEN 0
    ELSE LinesBefore(result, g - 1) + 6 + Len(result.groups[g - 1].specs)

\* The exported line of the j-th SpecItem of the g-th group.
ExportedDataLine(g, j) == export.lines[LinesBefore(export.result, g) + 4 + j]

\* C21: in the exported file the data line of every SpecItem gives back,
\* read as CSV, the item's parameter, unit, valueA, valueB, valueC and comment
\* as they are, each written as a double-quoted cell in which every double
\* quote of the field is doubled.
C21_QuotesEscaped ==
    export.saved =>
        \A g \in 1..Len(export.result.groups) :
        \A j \in 1..Len(export.result.groups[g].specs) :
            LET s == export.result.groups[g].specs[j]
                read == ReadLine(ExportedDataLine(g, j))
            IN  /\ read.ok
                /\ Len(read.cells) = 9
                /\ read.cells[2] = s.parameter /\ read.cells[3] = s.unit
                /\ read.cells[4] = s.valueA /\ read.cells[5] = s.valueB
                /\ read.cells[7] = s.valueC /\ read.cells[9] = s.comment

\* An item whose fields hold double quotes was exported: its comment cell
\* ends with the doubled quote and the closing quote.
C21_Witness ==
    /\ export.saved
    /\ Len(export.result.groups) >= 1
    /\ Len(export.result.groups[1].specs) >= 1
    /\ export.result.groups[1].specs[1].comment = <<"x", QUOTE, "y", QUOTE>>
    /\ LET line == ExportedDataLine(1, 1)
       IN  SubSeq(line, Len(line) - 7, Len(line)) =
               <<QUOTE, "x", QUOTE, QUOTE, "y", QUOTE, QUOTE, QUOTE>>

\* C22: for every group in order the exported file has three header lines,
\* then the table header and the data lines, each of which reads as exactly
\* nine CSV columns, then two empty lines.
C22_NineColumns ==
    export.saved =>
        /\ Len(export.lines) =
              LinesBefore(export.result, Len(export.result.groups) + 1)
        /\ \A g \in 1..Len(export.result.groups) :
              LET at == LinesBefore(export.result, g)
                  n == Len(export.result.groups[g].specs)
              IN  /\ \A h \in 1..3 : ReadLine(export.lines[at + h]).ok
                                       /\ Len(ReadLine(export.lines[at + h]).cells) = 1
                  /\ \A k \in 4..(4 + n) :
                        /\ ReadLine(export.lines[at + k]).ok
                        /\ Len(ReadLine(export.lines[at + k]).cells) = 9
                  /\ export.lines[at + n + 5] = <<>>
                  /\ export.lines[at + n + 6] = <<>>

\* The session as a phase machine over the App state.
Phase(s) ==
    IF s.isAnalyzing THEN "Analyzing"
    ELSE IF s.isChecking THEN "Checking"
    ELSE IF s.error # NULL THEN "Failed"
    ELSE IF s.result # NoResult THEN "Analyzed"
    ELSE IF s.checkResult # NoResult THEN "Checked"
    ELSE "Idle"

\* C23: from every state the session has left Idle for (Checking, Checked,
\* Analyzing, Analyzed, Failed), an explicit reset is offered and returns the
\* session to the initial state.
C23_ResetFromEveryPhase ==
    (NoMicrotask /\ Phase(state) # "Idle") => ENABLED reset

\* C24: once the state is the initial state again, a call issued earlier that
\* settles does not write to it: the state stays the initial state.
C24_ResetHolds ==
    [][(state = InitialState /\ Len(calls') < Len(calls)) => state' = InitialState]_vars

\* C25: the step in which a check or an analysis fails (its catch writes
\* the error) leaves masterList, datasheets, checkResult and result as they
\* were and the other phase's flag as it was; it lowers the failing phase's
\* own flag and sets error to a message.
C25_FailureFrame ==
    [][\A k \in 1..Len(calls) :
          (calls' = Without(calls, k) /\ state'.error # state.error) =>
              /\ state'.masterList = state.masterList
              /\ state'.datasheets = state.datasheets
              /\ state'.checkResult = state.checkResult
              /\ state'.result = state.result
              /\ state'.error # NULL
              /\ IF calls[k].inv.fn = "check"
                 THEN ~state'.isChecking /\ state'.isAnalyzing = state.isAnalyzing
                 ELSE ~state'.isAnalyzing /\ state'.isChecking = state.isChecking]_vars

\* An analysis failed while a check was awaited: the error is shown, the
\* check result and the inputs are still there and the check's flag is up.
C25_Witness ==
    /\ state.error # NULL
    /\ state.isChecking /\ ~state.isAnalyzing
    /\ state.checkResult # NoResult
    /\ state.masterList # NoFile /\ state.datasheets # <<>>
    /\ Len(calls) = 1 /\ calls[1].inv.fn = "check"

\* C26: an analysis's remote call is issued only from a state that holds a
\* master list, datasheets and the result of a completeness check of these
\* very inputs (no input has changed since the check was issued).
C26_AnalysisAfterCheck ==
    [][(/\ Len(calls') = Len(calls) + 1
        /\ calls'[Len(calls')].inv.fn = "analyze"
        /\ calls'[Len(calls')].inv.pc = "awaiting") =>
           /\ state.masterList # NoFile
           /\ state.datasheets # <<>>
           /\ state.checkResult # NoResult
           /\ state.checkResult.masterList = state.masterList
           /\ state.checkResult.datasheets = FileNames(state.datasheets)]_vars

\* C27: when a read of a selection fails, the step leaves the App state as it
\* was (no file of the selection is added, checkResult and result stay), and
\* from then on the failed selection is neither delivered nor read again: no
\* datasheet is added until the user selects files anew.
C27_AllOrNothing ==
    [][/\ (upload.pc = "reading" /\ upload'.pc = "failed") => state' = state
       /\ upload.pc = "failed" =>
             /\ upload'.pc # "delivered"
             /\ Len(state'.datasheets) <= Len(state.datasheets)
             /\ state'.result = state.result
             /\ upload'.pc = "failed" => upload' = upload]_vars

\* A selection of two files failed after the read of its first file was
\* done: no datasheet is held.
C27_Witness ==
    /\ upload.pc = "failed"
    /\ Len(upload.files) = 2
    /\ upload.results[1] # NoFile
    /\ upload.results[2] = NoFile
    /\ state.datasheets = <<>>

====
